---- MODULE Spec2Model ----
(***************************************************************************)
(* Variable-base scalar multiplication gate of kimchi                      *)
(* (kimchi/src/circuits/polynomials/varbasemul.rs): the witness generator  *)
(* witness(), the constraint generator VarbaseMul::constraints() and the   *)
(* LAYOUT both address the table through; and the flagset decomposition of *)
(* a Cairo instruction word (cairo/src/word.rs).                           *)
(*                                                                         *)
(* The code is generic in the field F and in the short Weierstrass curve   *)
(* y^2 = x^3 + a x + b the points lie on.  Here F is the prime field of P  *)
(* elements and the points are taken from the curves of Curves.            *)
(***************************************************************************)
EXTENDS Integers, Sequences, FiniteSets, TLC

\* ------------------------------------------------------------------ bounds
\* Longest bit slice handed to witness().
MaxBits == 10
\* Largest starting row row0 (the calls start at row 0 or at row MaxRow0).
MaxRow0 == 1

\* ------------------------------------------------------------------- field
\* The modulus of F (F: FftField, a prime field).
P == 7
\* The curves <<a, b>>, y^2 = x^3 + a x + b, the points are taken from:
\* y^2 = x^3 + 5 (the equation of the Pasta curves; 7 points with the point
\* at infinity) and y^2 = x^3 + 3 x + 2 (9 points).
Curves == { <<0, 5>>, <<3, 2>> }

F == 0 .. (P - 1)

FAdd(a, b) == (a + b) % P
FSub(a, b) == (a + P - b) % P
FMul(a, b) == (a * b) % P
FDouble(a) == (a + a) % P
FSquare(a) == (a * a) % P
FOne == 1 % P
FZero == 0
\* Field::inverse(): None for zero, otherwise the multiplicative inverse.
FInverse(a) == IF a = 0 THEN "None" ELSE CHOOSE y \in F : (a * y) % P = 1
\* a / b = a * b.inverse().unwrap(); only used where b # 0 (the callers model
\* the panic of unwrap() on None before they divide).
FDiv(a, b) == FMul(a, FInverse(b))
\* F::from(b as u64) for a bool b, given as 0 or 1.
FFromBool(b) == b % P

\* ------------------------------------------------------------------ layout
COLUMNS == 15
Curr == "Curr"
\* CurrOrNext::Next (Next names the next-state relation below).
Nxt == "Next"
\* CurrOrNext::shift()
shift(row) == IF row = Curr THEN 0 ELSE 1
\* const fn v(row, col) -> Variable
v(row, col) == [row |-> row, col |-> col]

\* accs[i], bits[i], ss[i] of the source are accs[i+1], bits[i+1], ss[i+1]
\* here (sequences are 1-based).
LAYOUT ==
  [ accs |-> << <<v(Curr, 2), v(Curr, 3)>>,
                <<v(Curr, 7), v(Curr, 8)>>,
                <<v(Curr, 9), v(Curr, 10)>>,
                <<v(Curr, 11), v(Curr, 12)>>,
                <<v(Curr, 13), v(Curr, 14)>>,
                <<v(Nxt, 0), v(Nxt, 1)>> >>,
    bits |-> << v(Nxt, 2), v(Nxt, 3), v(Nxt, 4), v(Nxt, 5), v(Nxt, 6) >>,
    ss   |-> << v(Nxt, 7), v(Nxt, 8), v(Nxt, 9), v(Nxt, 10), v(Nxt, 11) >>,
    base |-> << v(Curr, 0), v(Curr, 1) >>,
    n_prev |-> v(Curr, 4),
    n_next |-> v(Curr, 5) ]

\* --------------------------------------------------------------- the table
bits_per_chunk == 5
\* Number of chunks bits.chunks(bits_per_chunk) yields for n bits.
NumChunks(n) == (n + bits_per_chunk - 1) \div bits_per_chunk
\* Length of chunk number c (0-based) of n bits.
ChunkLen(n, c) ==
  IF n - bits_per_chunk * c < bits_per_chunk THEN n - bits_per_chunk * c
  ELSE bits_per_chunk

\* The table given to witness() has room for every window of the call and one
\* row more.
NumRows == MaxRow0 + 2 * NumChunks(MaxBits) + 1
Rows == 0 .. (NumRows - 1)
Cols == 0 .. (COLUMNS - 1)
\* What the caller's table holds before the call: no two neighbouring cells
\* agree, so a write to a wrong place shows.
PriorTable == [c \in Cols |-> [r \in Rows |-> (c + 2 * r + 1) % P]]

\* No place of the table written yet.
Untouched == [c \in Cols |-> [r \in Rows |-> FALSE]]

\* A memory is the table together with the record of the places written so
\* far: touched[column][row] is TRUE once set() has stored there.
Mem(tab, tch) == [tab |-> tab, touched |-> tch]

\* fn set(w, row0, var, x): w[i][row0 + var.row.shift()] = x
set(m, row0, var, x) ==
  [ tab |-> [m.tab EXCEPT ![var.col][row0 + shift(var.row)] = x],
    touched |-> [m.touched EXCEPT ![var.col][row0 + shift(var.row)] = TRUE] ]

\* The value of cell var of the window starting at row0.
Cell(tab, row0, var) == tab[var.col][row0 + shift(var.row)]

\* ------------------------------------------------------ single_bit_witness
\* The divisor of s1: input.x - base.x.
s1_divisor(base_value, input_value) == FSub(input_value[1], base_value[1])

s1_value_FlipQ(b_value, base_value, input_value) ==
  FDiv(FSub(input_value[2], FMul(base_value[2], FSub(FOne, FDouble(b_value)))),
       s1_divisor(base_value, input_value))

\* s1 = (input.y - base.y * (2 b - 1)) / (input.x - base.x)
s1_value(b_value, base_value, input_value) ==
  FDiv(FSub(input_value[2], FMul(base_value[2], FSub(FDouble(b_value), FOne))),
       s1_divisor(base_value, input_value))

\* The divisor of s2 with s1 in place of its square.
s2_divisor_NoSquare(base_value, input_value, s1v) ==
  FSub(FAdd(FDouble(input_value[1]), base_value[1]), s1v)

\* The divisor of s2: 2 input.x + base.x - s1^2.
s2_divisor(base_value, input_value, s1v) ==
  FSub(FAdd(FDouble(input_value[1]), base_value[1]), FSquare(s1v))

\* s2 = 2 input.y / (2 input.x + base.x - s1^2) - s1
s2_value(base_value, input_value, s1v) ==
  FSub(FDiv(FDouble(input_value[2]), s2_divisor(base_value, input_value, s1v)), s1v)

\* out_x = base.x + s2^2 - s1^2
out_x_value(base_value, s1v, s2v) ==
  FSub(FAdd(base_value[1], FSquare(s2v)), FSquare(s1v))

out_y_value_Swapped(input_value, out_x, s2v) ==
  FSub(FMul(FSub(out_x, input_value[1]), s2v), input_value[2])

\* out_y = (input.x - out_x) * s2 - input.y
out_y_value(input_value, out_x, s2v) ==
  FSub(FMul(FSub(input_value[1], out_x), s2v), input_value[2])

\* One conditional addition R = P + (Q + P), Q = b ? T : -T, written into the
\* window at row.  The result is the memory after the writes that happened,
\* whether both divisions were defined (ok), and the output point.  A division
\* by zero panics (inverse().unwrap()) after the writes that precede it.
single_bit_witness(m, row, b, base, s1, input, output, b_value, base_value, input_value) ==
  LET m5 == set(set(set(set(set(m, row, b, b_value),
                                row, input[1], input_value[1]),
                            row, input[2], input_value[2]),
                        row, base[1], base_value[1]),
                    row, base[2], base_value[2])
  IN  IF s1_divisor(base_value, input_value) = 0
      THEN [m |-> m5, ok |-> FALSE, out |-> input_value]
      ELSE
        LET s1v == s1_value(b_value, base_value, input_value)
            m6 == set(m5, row, s1, s1v)
        IN  IF s2_divisor(base_value, input_value, s1v) = 0
            THEN [m |-> m6, ok |-> FALSE, out |-> input_value]
            ELSE
              LET s2v == s2_value(base_value, input_value, s1v)
                  out_x == out_x_value(base_value, s1v, s2v)
                  out_y == out_y_value(input_value, out_x, s2v)
              IN  [ m |-> set(set(m6, row, output[1], out_x), row, output[2], out_y),
                    ok |-> TRUE,
                    out |-> <<out_x, out_y>> ]

\* ------------------------------------------------------------- constraints
\* An expression E<F> over cells is modelled by its value at a window of a
\* table: E::Cell(var) is Cell(tab, row, var), and +, -, *, double are the
\* field operations.  cache.cache(e) is e.

single_bit_NoOutputY(tab, row, b, base, s1, input, output) ==
  LET c(var) == Cell(tab, row, var)
      b_sign == FSub(FDouble(c(b)), FOne)
      s1_squared == FMul(c(s1), c(s1))
      rx == FSub(FSub(s1_squared, c(input[1])), c(base[1]))
      t == FSub(c(input[1]), rx)
      u == FSub(FDouble(c(input[2])), FMul(t, c(s1)))
  IN  << \* boolean constrain the bit
         FSub(FMul(c(b), c(b)), c(b)),
         \* constrain s1
         FSub(FMul(FSub(c(input[1]), c(base[1])), c(s1)),
              FSub(c(input[2]), FMul(b_sign, c(base[2])))),
         \* constrain output.x
         FSub(FMul(u, u),
              FMul(FMul(t, t), FAdd(FSub(c(output[1]), c(base[1])), s1_squared))),
         \* constrain output.x
         FSub(FMul(u, u),
              FMul(FMul(t, t), FAdd(FSub(c(output[1]), c(base[1])), s1_squared))) >>

\* fn single_bit(cache, b, base, s1, input, output) -> Vec<E<F>>
single_bit(tab, row, b, base, s1, input, output) ==
  LET c(var) == Cell(tab, row, var)
      b_sign == FSub(FDouble(c(b)), FOne)
      s1_squared == FMul(c(s1), c(s1))
      rx == FSub(FSub(s1_squared, c(input[1])), c(base[1]))
      t == FSub(c(input[1]), rx)
      u == FSub(FDouble(c(input[2])), FMul(t, c(s1)))
  IN  << \* boolean constrain the bit
         FSub(FMul(c(b), c(b)), c(b)),
         \* constrain s1
         FSub(FMul(FSub(c(input[1]), c(base[1])), c(s1)),
              FSub(c(input[2]), FMul(b_sign, c(base[2])))),
         \* constrain output.x
         FSub(FMul(u, u),
              FMul(FMul(t, t), FAdd(FSub(c(output[1]), c(base[1])), s1_squared))),
         \* constrain output.y
         FSub(FMul(FAdd(c(output[2]), c(input[2])), t),
              FMul(FSub(c(input[1]), c(output[1])), u)) >>

\* const CONSTRAINTS: u32 = 21
CONSTRAINTS == 21

\* bits.iter().fold(n_prev, |acc, b| E::Cell(*b) + acc.double()), over the
\* first k bit cells.
RECURSIVE ScalarFoldRev(_, _, _)
ScalarFoldRev(tab, row, k) ==
  IF k = 0 THEN Cell(tab, row, LAYOUT.n_prev)
  ELSE FAdd(Cell(tab, row, LAYOUT.bits[Len(LAYOUT.bits) + 1 - k]),
            FDouble(ScalarFoldRev(tab, row, k - 1)))

RECURSIVE ScalarFold(_, _, _)
ScalarFold(tab, row, k) ==
  IF k = 0 THEN Cell(tab, row, LAYOUT.n_prev)
  ELSE FAdd(Cell(tab, row, LAYOUT.bits[k]), FDouble(ScalarFold(tab, row, k - 1)))

constraint_Swapped(tab, row, k) ==
  single_bit(tab, row, LAYOUT.bits[k + 1], LAYOUT.base, LAYOUT.ss[k + 1],
             LAYOUT.accs[k + 2], LAYOUT.accs[k + 1])

\* let mut constraint = |i| single_bit(&mut c, bits[i], base, ss[i], accs[i], accs[i + 1])
constraint(tab, row, k) ==
  single_bit(tab, row, LAYOUT.bits[k + 1], LAYOUT.base, LAYOUT.ss[k + 1],
             LAYOUT.accs[k + 1], LAYOUT.accs[k + 2])

\* fn constraints() -> Vec<E<F>>, valued at the window of tab starting at row.
constraints(tab, row) ==
  << FSub(Cell(tab, row, LAYOUT.n_next), ScalarFold(tab, row, Len(LAYOUT.bits))) >>
    \o constraint(tab, row, 0) \o constraint(tab, row, 1) \o constraint(tab, row, 2)
    \o constraint(tab, row, 3) \o constraint(tab, row, 4)

\* -------------------------------------------------------------- Cairo word
\* A word that is an instruction fits 64 bits; it is kept as four 16-bit
\* limbs, least significant first: off_dst, off_op0, off_op1, flags.
NUM_FLAGS == 16
POS_FLAGS == 48
LimbBits == NUM_FLAGS

\* Two to the power k.
Pow2(k) == 2 ^ k

\* self.word().to_bits()[k]: bit k of the word, little endian.
to_bits(wd, k) == (wd[(k \div LimbBits) + 1] \div Pow2(k % LimbBits)) % 2
\* F::least_significant_byte()
least_significant_byte(x) == x % 256
\* u8 arithmetic (wrapping).
U8(x) == x % 256

flag_at(wd, pos) == to_bits(wd, POS_FLAGS + pos)
f_dst_fp(wd) == flag_at(wd, 0)
f_op0_fp(wd) == flag_at(wd, 1)
f_op1_val(wd) == flag_at(wd, 2)
f_op1_fp(wd) == flag_at(wd, 3)
f_op1_ap(wd) == flag_at(wd, 4)
f_res_add(wd) == flag_at(wd, 5)
f_res_mul(wd) == flag_at(wd, 6)
f_pc_abs(wd) == flag_at(wd, 7)
f_pc_rel(wd) == flag_at(wd, 8)
f_pc_jnz(wd) == flag_at(wd, 9)
f_ap_add(wd) == flag_at(wd, 10)
f_ap_one(wd) == flag_at(wd, 11)
f_opc_call(wd) == flag_at(wd, 12)
f_opc_ret(wd) == flag_at(wd, 13)
f_opc_aeq(wd) == flag_at(wd, 14)
f15(wd) == flag_at(wd, 15)

dst_reg(wd) == least_significant_byte(f_dst_fp(wd))
op0_reg(wd) == least_significant_byte(f_op0_fp(wd))
op1_src_Swapped(wd) ==
  U8(U8(2 * U8(U8(2 * least_significant_byte(f_op1_val(wd)))
               + least_significant_byte(f_op1_fp(wd))))
     + least_significant_byte(f_op1_ap(wd)))
op1_src(wd) ==
  U8(U8(2 * U8(U8(2 * least_significant_byte(f_op1_ap(wd)))
               + least_significant_byte(f_op1_fp(wd))))
     + least_significant_byte(f_op1_val(wd)))
res_log(wd) ==
  U8(U8(2 * least_significant_byte(f_res_mul(wd))) + least_significant_byte(f_res_add(wd)))
pc_up(wd) ==
  U8(U8(2 * U8(U8(2 * least_significant_byte(f_pc_jnz(wd)))
               + least_significant_byte(f_pc_rel(wd))))
     + least_significant_byte(f_pc_abs(wd)))
ap_up(wd) ==
  U8(U8(2 * least_significant_byte(f_ap_one(wd))) + least_significant_byte(f_ap_add(wd)))
opcode(wd) ==
  U8(U8(2 * U8(U8(2 * least_significant_byte(f_opc_aeq(wd)))
               + least_significant_byte(f_opc_ret(wd))))
     + least_significant_byte(f_opc_call(wd)))

\* ------------------------------------------------------------------- state
VARIABLES
  w,        \* the witness table, w[column][row]
  touched,  \* touched[column][row]: written since the call began
  curve,    \* the curve <<a, b>> base and acc0 lie on
  row0,     \* argument row0
  base,     \* argument base
  acc0,     \* argument acc0
  len,      \* bits.len()
  bits,     \* the bits of the argument read so far, as 0 / 1
  pc,       \* where witness() is
  chunk,    \* index of the outer loop
  i,        \* index of the inner loop
  acc,      \* local acc
  n_acc,    \* local n_acc
  word,     \* a Cairo word, as four 16-bit limbs, least significant first
  flagsets  \* the flagsets decoded from word

vars == <<w, touched, curve, row0, base, acc0, len, bits, pc, chunk, i, acc, n_acc,
          word, flagsets>>

\* The affine points of the curve cv.
OnCurve(cv, pt) ==
  FSquare(pt[2]) = FAdd(FAdd(FMul(FSquare(pt[1]), pt[1]), FMul(cv[1] % P, pt[1])), cv[2] % P)
CurvePoints(cv) == { pt \in F \X F : OnCurve(cv, pt) }

NoWord == <<0, 0, 0, 0>>
NoFlagsets ==
  [dst_reg |-> 0, op0_reg |-> 0, op1_src |-> 0, res_log |-> 0, pc_up |-> 0,
   ap_up |-> 0, opcode |-> 0]

\* The state at the call of witness(w, row0, base, bits, acc0).
Init ==
  /\ w = PriorTable
  /\ touched = Untouched
  /\ row0 \in {0, MaxRow0}
  /\ curve \in Curves
  /\ base \in CurvePoints(curve)
  /\ acc0 \in CurvePoints(curve)
  /\ len \in 0 .. MaxBits
  /\ bits = << >>
  /\ pc = "start"
  /\ chunk = 0
  /\ i = 0
  /\ acc = acc0
  /\ n_acc = FZero
  /\ word = NoWord
  /\ flagsets = NoFlagsets

LenIsAnything(n) == n >= 0
\* assert_eq!(bits_per_chunk * (bits.len() / bits_per_chunk), bits.len())
LenIsMultiple(n) == bits_per_chunk * (n \div bits_per_chunk) = n

\* The assertion holds: acc and n_acc are initialised and the loop begins.
Start ==
  /\ pc = "start"
  /\ LenIsMultiple(len)
  /\ acc' = acc0
  /\ n_acc' = FZero
  /\ chunk' = 0
  /\ pc' = "loop"
  /\ UNCHANGED <<w, touched, curve, row0, base, acc0, len, bits, i, word, flagsets>>

\* The assertion fails: the call panics.
AssertFail ==
  /\ pc = "start"
  /\ ~LenIsMultiple(len)
  /\ pc' = "assert_failed"
  /\ UNCHANGED <<w, touched, curve, row0, base, acc0, len, bits, chunk, i, acc, n_acc,
                 word, flagsets>>

ChunkRow3(r0, c) == r0 + 3 * c
\* let row = row0 + 2 * chunk
ChunkRow(r0, c) == r0 + 2 * c

\* Head of one iteration of the outer loop: set(w, row, l.n_prev, n_acc).
ChunkBegin ==
  /\ pc = "loop"
  /\ chunk < NumChunks(len)
  /\ LET m == set(Mem(w, touched), ChunkRow(row0, chunk), LAYOUT.n_prev, n_acc)
     IN  /\ w' = m.tab
         /\ touched' = m.touched
  /\ i' = 0
  /\ pc' = "bits"
  /\ UNCHANGED <<curve, row0, base, acc0, len, bits, chunk, acc, n_acc, word, flagsets>>

NextScalarAddFirst(n, bs) == FDouble(FAdd(n, bs))
\* n_acc.double_in_place(); n_acc += bs
NextScalar(n, bs) == FAdd(FDouble(n), bs)

BitCallFromAcc0(bs) ==
  single_bit_witness(Mem(w, touched), ChunkRow(row0, chunk),
                     LAYOUT.bits[i + 1], LAYOUT.base, LAYOUT.ss[i + 1],
                     LAYOUT.accs[i + 1], LAYOUT.accs[i + 2],
                     bs, base, acc0)

\* The call of single_bit_witness of iteration i of the inner loop, for bit bs.
BitCall(bs) ==
  single_bit_witness(Mem(w, touched), ChunkRow(row0, chunk),
                     LAYOUT.bits[i + 1], LAYOUT.base, LAYOUT.ss[i + 1],
                     LAYOUT.accs[i + 1], LAYOUT.accs[i + 2],
                     bs, base, acc)

\* One iteration of the inner loop whose divisions are defined.
BitStep ==
  /\ pc = "bits"
  /\ i < ChunkLen(len, chunk)
  /\ \E bit \in {0, 1} :
       LET bs == FFromBool(bit)
           r == BitCall(bs)
       IN  /\ r.ok
           /\ bits' = Append(bits, bit)
           /\ n_acc' = NextScalar(n_acc, bs)
           /\ w' = r.m.tab
           /\ touched' = r.m.touched
           /\ acc' = r.out
  /\ i' = i + 1
  /\ UNCHANGED <<curve, row0, base, acc0, len, pc, chunk, word, flagsets>>

\* One iteration of the inner loop that divides by zero: the call panics after
\* the writes made before the division.
BitStepPanic ==
  /\ pc = "bits"
  /\ i < ChunkLen(len, chunk)
  /\ \E bit \in {0, 1} :
       LET bs == FFromBool(bit)
           r == BitCall(bs)
       IN  /\ ~r.ok
           /\ bits' = Append(bits, bit)
           /\ n_acc' = NextScalar(n_acc, bs)
           /\ w' = r.m.tab
           /\ touched' = r.m.touched
  /\ pc' = "div_by_zero"
  /\ UNCHANGED <<curve, row0, base, acc0, len, chunk, i, acc, word, flagsets>>

\* Tail of one iteration of the outer loop: set(w, row, l.n_next, n_acc).
ChunkEnd ==
  /\ pc = "bits"
  /\ i = ChunkLen(len, chunk)
  /\ LET m == set(Mem(w, touched), ChunkRow(row0, chunk), LAYOUT.n_next, n_acc)
     IN  /\ w' = m.tab
         /\ touched' = m.touched
  /\ chunk' = chunk + 1
  /\ pc' = "loop"
  /\ UNCHANGED <<curve, row0, base, acc0, len, bits, i, acc, n_acc, word, flagsets>>

\* VarbaseMulResult { acc, n: n_acc }
Return ==
  /\ pc = "loop"
  /\ chunk = NumChunks(len)
  /\ pc' = "done"
  /\ UNCHANGED <<w, touched, curve, row0, base, acc0, len, bits, chunk, i, acc, n_acc,
                 word, flagsets>>

Next == Start \/ AssertFail \/ ChunkBegin \/ BitStep \/ BitStepPanic \/ ChunkEnd \/ Return

Spec == Init /\ [][Next]_vars

\* The calls on at most one chunk of bits (and one bit more, for the
\* assertion): one gate instance.
InitOneGate == Init /\ len <= bits_per_chunk + 1
SpecOneGate == InitOneGate /\ [][Next]_vars

\* ------------------------------------------------- decoding a Cairo word
\* The words decoded: every value of the flags limb over the offsets of the
\* word of test_cairo_word, and some flags over offsets all zero and all ones.
Words ==
  { <<32768, 32767, 32769, fl>> : fl \in 0 .. (Pow2(NUM_FLAGS) - 1) }
    \cup { <<o, o, o, fl>> : o \in {0, 65535}, fl \in {0, 1, 18438, 32768, 65535} }

\* CairoWord::new(word); no call of witness() is in progress.
InitWord ==
  /\ word \in Words
  /\ flagsets = NoFlagsets
  /\ pc = "word"
  /\ w = << >>
  /\ touched = << >>
  /\ curve = <<0, 0>>
  /\ row0 = 0
  /\ base = <<0, 0>>
  /\ acc0 = <<0, 0>>
  /\ len = 0
  /\ bits = << >>
  /\ chunk = 0
  /\ i = 0
  /\ acc = <<0, 0>>
  /\ n_acc = 0

\* The seven flagsets of the word are taken.
Decode ==
  /\ pc = "word"
  /\ flagsets' = [dst_reg |-> dst_reg(word), op0_reg |-> op0_reg(word),
                  op1_src |-> op1_src(word), res_log |-> res_log(word),
                  pc_up |-> pc_up(word), ap_up |-> ap_up(word),
                  opcode |-> opcode(word)]
  /\ pc' = "decoded"
  /\ UNCHANGED <<w, touched, curve, row0, base, acc0, len, bits, chunk, i, acc, n_acc, word>>

NextWord == Decode
SpecWord == InitWord /\ [][NextWord]_vars

\* ------------------------------------------------------------------ claims
\* Every expression of constraints() is zero at the window of tab at row.
Vanishes(tab, row) ==
  LET cs == constraints(tab, row) IN \A j \in 1 .. Len(cs) : cs[j] = 0

\* C1: when witness() completes, each of the 21 expressions of constraints()
\* evaluates to zero at the cells written for every chunk k (Curr = row0 + 2k,
\* Next = row0 + 2k + 1).
C1_ConstraintsVanish ==
  pc = "done" =>
    \A k \in 0 .. (NumChunks(len) - 1) :
      /\ Len(constraints(w, ChunkRow(row0, k))) = 21
      /\ Vanishes(w, ChunkRow(row0, k))

\* A completed call over two chunks whose last slope and output are not zero.
C1_Witness ==
  /\ pc = "done"
  /\ len = 10
  /\ Cell(w, ChunkRow(row0, 1), LAYOUT.ss[5]) # 0
  /\ Cell(w, ChunkRow(row0, 1), LAYOUT.accs[6][2]) # 0
  /\ Vanishes(w, ChunkRow(row0, 1))

\* The integer a bit sequence denotes, first bit most significant.
RECURSIVE BitsValue(_)
BitsValue(bs) ==
  IF bs = << >> THEN 0
  ELSE bs[1] * Pow2(Len(bs) - 1) + BitsValue(Tail(bs))

\* C2: the scalar witness() returns is the integer value of the whole bit
\* sequence, first bit most significant, reduced into the field; bits
\* [1,0,1,1,0] give 22.
C2_ScalarAccumulation ==
  pc = "done" =>
    /\ Len(bits) = len
    /\ n_acc = BitsValue(bits) % P
    /\ (bits = <<1, 0, 1, 1, 0>> => n_acc = 22 % P)

\* A completed call on [1,0,1,1,0]: 22 is reduced into the field.
C2_Witness ==
  /\ pc = "done"
  /\ bits = <<1, 0, 1, 1, 0>>
  /\ n_acc = 22 % P

\* The values of the five bit cells of the window at row, in layout order.
BitCells(tab, row) == [k \in 1 .. 5 |-> Cell(tab, row, LAYOUT.bits[k])]

\* bit0 + 2 (bit1 + 2 (bit2 + 2 (bit3 + 2 (bit4 + 2 before))))
FirstBitLeast(b, before) ==
  (b[1] + 2 * (b[2] + 2 * (b[3] + 2 * (b[4] + 2 * (b[5] + 2 * before))))) % P

\* bit4 + 2 (bit3 + 2 (bit2 + 2 (bit1 + 2 (bit0 + 2 before))))
FirstBitMost(b, before) ==
  (b[5] + 2 * (b[4] + 2 * (b[3] + 2 * (b[2] + 2 * (b[1] + 2 * before))))) % P

\* The chunks whose window is complete (n_next written).
DoneChunks == 0 .. (chunk - 1)

\* C3 as stated: in every gate instance written by a call of witness() that
\* returned the n_next cell
\* is bit0 + 2 (bit1 + 2 (bit2 + 2 (bit3 + 2 (bit4 + 2 n_prev)))), bit0 the
\* first bit processed.
C3_AsStated ==
  pc = "done" => \A k \in DoneChunks :
    LET row == ChunkRow(row0, k)
    IN  Cell(w, row, LAYOUT.n_next)
          = FirstBitLeast(BitCells(w, row), Cell(w, row, LAYOUT.n_prev))

\* C3 amended: in every gate instance written by a call of witness() that
\* returned the n_next cell is
\* bit4 + 2 (bit3 + 2 (bit2 + 2 (bit1 + 2 (bit0 + 2 n_prev)))), bit0 the first
\* bit processed (the most significant of the chunk), and the first expression
\* of constraints() is n_next minus that value: zero on the window, and one
\* when the n_next cell is raised by one.
C3_RunningScalar ==
  pc = "done" => \A k \in DoneChunks :
    LET row == ChunkRow(row0, k)
        after == FirstBitMost(BitCells(w, row), Cell(w, row, LAYOUT.n_prev))
        moved == [w EXCEPT ![LAYOUT.n_next.col][row] = FAdd(after, 1)]
    IN  /\ Cell(w, row, LAYOUT.n_next) = after
        /\ constraints(w, row)[1] = 0
        /\ constraints(moved, row)[1] = FOne

\* A completed chunk whose bits are not a palindrome and whose first bit is 1.
C3_Witness ==
  /\ pc = "done"
  /\ chunk = 2
  /\ BitCells(w, ChunkRow(row0, 1)) = [k \in 1 .. 5 |-> IF k \in {1, 3, 4} THEN 1 ELSE 0]
  /\ Cell(w, ChunkRow(row0, 1), LAYOUT.n_prev) # 0
  /\ Cell(w, ChunkRow(row0, 1), LAYOUT.n_next)
       = FirstBitMost(BitCells(w, ChunkRow(row0, 1)), Cell(w, ChunkRow(row0, 1), LAYOUT.n_prev))

\* C5: when the number of bits is not a multiple of 5 the call fails before
\* any cell is written: the table is what it was before the call and no bit
\* was processed.
C5_AssertLeavesTable ==
  (len % 5 # 0) =>
    /\ pc \in {"start", "assert_failed"}
    /\ w = PriorTable
    /\ touched = Untouched
    /\ bits = << >>

\* A failed call on seven bits.
C5_Witness ==
  /\ pc = "assert_failed"
  /\ len = 7
  /\ w = PriorTable

\* Rows of the windows of the chunks of the call.
CallRows == { r \in Rows : row0 <= r /\ r < row0 + 2 * NumChunks(len) }

\* C6: a completed call on 5m bits writes only in rows row0 .. row0 + 2m - 1,
\* writes in both rows of every chunk's window, leaves every other cell as it
\* was, and with m = 0 writes nothing and returns (acc0, 0).
C6_WriteFootprint ==
  pc = "done" =>
    /\ len = 5 * NumChunks(len)
    /\ \A c \in Cols : \A r \in Rows \ CallRows :
         ~touched[c][r] /\ w[c][r] = PriorTable[c][r]
    /\ \A c \in Cols : \A r \in Rows : ~touched[c][r] => w[c][r] = PriorTable[c][r]
    /\ \A r \in CallRows : \E c \in Cols : touched[c][r]
    /\ (len = 0 => w = PriorTable /\ touched = Untouched /\ acc = acc0 /\ n_acc = 0)

\* A completed two-chunk call starting at row 1: rows 1..4 written, rows 0 and
\* 5 not.
C6_Witness ==
  /\ pc = "done"
  /\ len = 10
  /\ row0 = 1
  /\ touched[LAYOUT.n_next.col][3]
  /\ touched[LAYOUT.bits[5].col][4]
  /\ \A c \in Cols : ~touched[c][0] /\ ~touched[c][5]

\* The point held by a pair of cells of the window at row.
PointAt(tab, row, cv) == << Cell(tab, row, cv[1]), Cell(tab, row, cv[2]) >>

\* The state part of C10: the windows written so far are chained.
Chained ==
  /\ \A k \in DoneChunks :
       LET row == ChunkRow(row0, k)
       IN  IF k = 0
           THEN /\ Cell(w, row, LAYOUT.n_prev) = 0
                /\ PointAt(w, row, LAYOUT.accs[1]) = acc0
           ELSE /\ Cell(w, row, LAYOUT.n_prev) = Cell(w, row - 2, LAYOUT.n_next)
                /\ PointAt(w, row, LAYOUT.accs[1]) = PointAt(w, row - 2, LAYOUT.accs[6])
  /\ (pc = "done" => /\ chunk = NumChunks(len)
                     /\ len > 0 => /\ acc = PointAt(w, ChunkRow(row0, chunk - 1), LAYOUT.accs[6])
                                   /\ n_acc = Cell(w, ChunkRow(row0, chunk - 1), LAYOUT.n_next))

\* A place already written keeps its value in every later step.
WrittenOnce == \A c \in Cols : \A r \in Rows : touched[c][r] => w'[c][r] = w[c][r]

\* C10: inside one call, chunk k >= 1 starts from the n_next and accs[5] cells
\* of chunk k - 1, chunk 0 from scalar 0 and acc0, and no cell already written
\* (an accumulator cell is written as the output of step i and again as the
\* input of step i + 1) is ever given a second value.
C10_Chaining == [](Chained) /\ [][WrittenOnce]_vars

\* A completed two-chunk call whose second window starts from a scalar and an
\* accumulator that differ from the call's.
C10_Witness ==
  /\ pc = "done"
  /\ len = 10
  /\ Cell(w, ChunkRow(row0, 1), LAYOUT.n_prev) # 0
  /\ PointAt(w, ChunkRow(row0, 1), LAYOUT.accs[1]) # acc0
  /\ PointAt(w, ChunkRow(row0, 1), LAYOUT.accs[1]) = PointAt(w, ChunkRow(row0, 0), LAYOUT.accs[6])

\* ------------------------------------------- the group law, for reference
\* The point at infinity (its coordinates are no field elements).
Inf == <<P, P>>
ECNeg(pt) == IF pt = Inf THEN Inf ELSE <<pt[1], FSub(0, pt[2])>>
\* Affine addition on the curve cv = <<a, b>>: chord for distinct x, tangent
\* for a point added to itself, infinity for a point added to its negative.
ECAdd(cv, p1, p2) ==
  IF p1 = Inf THEN p2
  ELSE IF p2 = Inf THEN p1
  ELSE IF p1[1] = p2[1] /\ FAdd(p1[2], p2[2]) = 0 THEN Inf
  ELSE
    LET lam == IF p1 = p2
               THEN FDiv(FAdd(FMul(3 % P, FSquare(p1[1])), cv[1] % P), FDouble(p1[2]))
               ELSE FDiv(FSub(p2[2], p1[2]), FSub(p2[1], p1[1]))
        x3 == FSub(FSub(FSquare(lam), p1[1]), p2[1])
        y3 == FSub(FMul(lam, FSub(p1[1], x3)), p1[2])
    IN  <<x3, y3>>

\* Acc + (Q + Acc), Q = T for bit 1 and -T for bit 0.
RefStep(cv, T, A, bit) ==
  ECAdd(cv, A, ECAdd(cv, IF bit = 1 THEN T ELSE ECNeg(T), A))

\* Acc := Acc + (Q + Acc) iterated over the bits bs in order.
RECURSIVE RefIter(_, _, _, _)
RefIter(cv, T, A, bs) ==
  IF bs = << >> THEN A ELSE RefIter(cv, T, RefStep(cv, T, A, bs[1]), Tail(bs))

\* C4: the accumulator witness() returns is Acc := Acc + (Q + Acc) iterated
\* over the bits in order from acc0 with the group addition of the curve, and
\* in every window written the output cells of each single-bit step hold
\* P + (Q + P) for the step's input cells P, bit cell and base cells.
C4_Accumulator ==
  pc = "done" =>
    /\ acc = RefIter(curve, base, acc0, bits)
    /\ OnCurve(curve, acc)
    /\ \A k \in DoneChunks : \A j \in 1 .. 5 :
         LET row == ChunkRow(row0, k)
         IN  PointAt(w, row, LAYOUT.accs[j + 1])
               = RefStep(curve, PointAt(w, row, LAYOUT.base),
                         PointAt(w, row, LAYOUT.accs[j]), Cell(w, row, LAYOUT.bits[j]))

\* The scenario of the module's header: a completed call on ten bits from
\* Acc = [2]T on the curve y^2 = x^3 + 5.
C4_Witness ==
  /\ pc = "done"
  /\ len = 10
  /\ curve = <<0, 5>>
  /\ acc0 = ECAdd(curve, base, base)
  /\ acc = RefIter(curve, base, acc0, bits)
  /\ acc # acc0

\* The cells of a window that hold no bit.
NonBitCells ==
  { LAYOUT.base[1], LAYOUT.base[2], LAYOUT.n_prev, LAYOUT.n_next }
    \cup { LAYOUT.ss[k] : k \in 1 .. 5 }
    \cup { LAYOUT.accs[k][j] : k \in 1 .. 6, j \in 1 .. 2 }

\* The table with cell var of the window at row raised by d.
Perturb(tab, row, var, d) ==
  [tab EXCEPT ![var.col][row + shift(var.row)] = FAdd(@, d)]

\* Every change of cell var by a nonzero d makes some expression nonzero.
Detected(tab, row, var) ==
  \A d \in 1 .. (P - 1) : ~Vanishes(Perturb(tab, row, var, d), row)

\* C7 as stated: on a window written by a completed call, changing any single
\* non-bit cell by a nonzero field element makes at least one of the 21
\* expressions nonzero.
C7_AsStated ==
  pc = "done" =>
    \A k \in DoneChunks : \A var \in NonBitCells : Detected(w, ChunkRow(row0, k), var)

\* C7 amended: on a window written by a completed call, changing any single
\* non-bit cell other than the base point's x cell by a nonzero field element
\* makes at least one of the 21 expressions nonzero, and so does changing the
\* base point's x cell when one of the window's five slope cells is not zero.
C7_CorruptionDetected ==
  pc = "done" =>
    \A k \in DoneChunks :
      LET row == ChunkRow(row0, k)
      IN  /\ \A var \in NonBitCells \ {LAYOUT.base[1]} : Detected(w, row, var)
          /\ (\E j \in 1 .. 5 : Cell(w, row, LAYOUT.ss[j]) # 0)
               => Detected(w, row, LAYOUT.base[1])

\* A completed window with a nonzero slope on which raising the last output's
\* y cell by one is caught by the last expression.
C7_Witness ==
  /\ pc = "done"
  /\ len = 5
  /\ Cell(w, row0, LAYOUT.ss[1]) # 0
  /\ Vanishes(w, row0)
  /\ constraints(Perturb(w, row0, LAYOUT.accs[6][2], 1), row0)[21] # 0

\* The four identities of one single-bit step, on values: bit b, base T, slope
\* s, input P and output R.
BooleanityId(b) == FSub(FSquare(b), b)
SlopeId(b, T, s, A) ==
  FSub(FMul(FSub(A[1], T[1]), s),
       FSub(A[2], FMul(FSub(FDouble(b), 1), T[2])))
StepT(T, s, A) == FSub(FAdd(FDouble(A[1]), T[1]), FSquare(s))
StepU(T, s, A) == FSub(FDouble(A[2]), FMul(StepT(T, s, A), s))
OutputXId(T, s, A, R) ==
  FSub(FSquare(StepU(T, s, A)),
       FMul(FSquare(StepT(T, s, A)), FAdd(FSub(R[1], T[1]), FSquare(s))))
OutputYId(T, s, A, R) ==
  FSub(FMul(FAdd(R[2], A[2]), StepT(T, s, A)),
       FMul(FSub(A[1], R[1]), StepU(T, s, A)))

\* The expressions of constraints() have the stated shape at the window at row.
ShapeAt(tab, row) ==
  LET cs == constraints(tab, row)
      T == PointAt(tab, row, LAYOUT.base)
  IN  /\ Len(cs) = 21
      /\ Len(cs) = CONSTRAINTS
      /\ cs[1] = FSub(Cell(tab, row, LAYOUT.n_next),
                      FirstBitMost(BitCells(tab, row), Cell(tab, row, LAYOUT.n_prev)))
      /\ \A k \in 0 .. 4 :
           LET b == Cell(tab, row, LAYOUT.bits[k + 1])
               s == Cell(tab, row, LAYOUT.ss[k + 1])
               A == PointAt(tab, row, LAYOUT.accs[k + 1])
               R == PointAt(tab, row, LAYOUT.accs[k + 2])
           IN  /\ cs[1 + 4 * k + 1] = BooleanityId(b)
               /\ cs[1 + 4 * k + 2] = SlopeId(b, T, s, A)
               /\ cs[1 + 4 * k + 3] = OutputXId(T, s, A, R)
               /\ cs[1 + 4 * k + 4] = OutputYId(T, s, A, R)

\* C8: constraints() returns exactly 21 expressions, the declared CONSTRAINTS:
\* index 0 is the running-scalar recurrence and, for each bit i in 0..4,
\* indices 1+4i .. 4+4i are the booleanity, chord-slope, output-x and output-y
\* identities over the cells bits[i], ss[i], accs[i] and accs[i+1].  Checked on
\* every window of a call that returned or panicked, whole or partly written.
C8_ConstraintShape ==
  pc \in {"done", "div_by_zero"} =>
    \A k \in 0 .. (NumChunks(len) - 1) : ShapeAt(w, ChunkRow(row0, k))

\* A window left partly written by a panic in its third step: the identities
\* of the first two bits are zero and those of each later bit are not all
\* zero.
C8_Witness ==
  /\ pc = "div_by_zero"
  /\ i = 2
  /\ ShapeAt(w, row0)
  /\ \A j \in 2 .. 9 : constraints(w, row0)[j] = 0
  /\ \A k \in 2 .. 4 : \E j \in 1 .. 4 : constraints(w, row0)[1 + 4 * k + j] # 0

\* The integer formed by flag bits 0 .. 14, flag i weighted 2^i.
RECURSIVE FlagBitsValue(_, _)
FlagBitsValue(wd, n) ==
  IF n = 0 THEN 0 ELSE flag_at(wd, n - 1) * Pow2(n - 1) + FlagBitsValue(wd, n - 1)

\* dst_reg + 2 op0_reg + 2^2 op1_src + 2^5 res_log + 2^7 pc_up + 2^10 ap_up
\* + 2^12 opcode
Recomposed(fs) ==
  fs.dst_reg + 2 * fs.op0_reg + Pow2(2) * fs.op1_src + Pow2(5) * fs.res_log
    + Pow2(7) * fs.pc_up + Pow2(10) * fs.ap_up + Pow2(12) * fs.opcode

\* C9: the flagsets of a word recompose flag bits 0 .. 14 (f15 is in no
\* flagset), each flagset is in its range, and each is the integer combination
\* of its flags, so no u8 operation wrapped.
C9_FlagsetRecomposition ==
  pc = "decoded" =>
    /\ Recomposed(flagsets) = FlagBitsValue(word, 15)
    /\ Recomposed(flagsets) = word[4] % Pow2(15)
    /\ flagsets.dst_reg \in 0 .. 1
    /\ flagsets.op0_reg \in 0 .. 1
    /\ flagsets.res_log \in 0 .. 3
    /\ flagsets.ap_up \in 0 .. 3
    /\ flagsets.op1_src \in 0 .. 7
    /\ flagsets.pc_up \in 0 .. 7
    /\ flagsets.opcode \in 0 .. 7
    /\ flagsets.op1_src = 4 * f_op1_ap(word) + 2 * f_op1_fp(word) + f_op1_val(word)
    /\ flagsets.pc_up = 4 * f_pc_jnz(word) + 2 * f_pc_rel(word) + f_pc_abs(word)
    /\ flagsets.opcode = 4 * f_opc_aeq(word) + 2 * f_opc_ret(word) + f_opc_call(word)

\* The word 0x480680017fff8000 of test_cairo_word decoded: flags 0x4806.
C9_Witness ==
  /\ pc = "decoded"
  /\ word = <<32768, 32767, 32769, 18438>>
  /\ flagsets = [dst_reg |-> 0, op0_reg |-> 1, op1_src |-> 1, res_log |-> 0,
                 pc_up |-> 0, ap_up |-> 2, opcode |-> 4]
  /\ Recomposed(flagsets) = 18438

\* ----------------------------------------------------------------- C11
\* The failing step of a call that divided by zero: iteration i of the
\* window of chunk, with input point acc and base point base.
FailedRow == ChunkRow(row0, chunk)

\* The slope cell of the failing step, written before the second division.
FailedSlope == Cell(w, FailedRow, LAYOUT.ss[i + 1])

\* 2 Px + Tx - s1^2 of the failing step, from the integers.
SecondDivisor == (2 * acc[1] + base[1] + P * P - FailedSlope * FailedSlope) % P

\* C11 as stated: with Px # Tx at every single-bit step, witness divides by
\* nothing that is zero; so a call that divided by zero did so at a step
\* with Px = Tx.
C11_AsStated == pc = "div_by_zero" => acc[1] = base[1]

\* A call that divided by zero with Px # Tx: the divisor of s2 was zero, and
\* the slope s1 had been written.
C11_SecondDivision ==
  /\ pc = "div_by_zero"
  /\ acc[1] # base[1]
  /\ touched[LAYOUT.ss[i + 1].col][FailedRow + shift(LAYOUT.ss[i + 1].row)]
  /\ SecondDivisor = 0

\* 2 Px + Tx - s1^2 of the step about to run on bit value bs, from the
\* integers.
NextDivisor(bs) ==
  LET s == s1_value(bs, base, acc)
  IN  (2 * acc[1] + base[1] + P * P - s * s) % P

\* C11, amended: for every base point, initial accumulator and bit sequence
\* of length a multiple of 5 such that at every single-bit step Px # Tx and
\* 2 Px + Tx - s1^2 # 0, witness divides by nothing that is zero and
\* completes, returning a final accumulator and a scalar.  A call divides by
\* zero only at a step where Px = Tx or 2 Px + Tx - s1^2 = 0; a step where
\* neither holds completes and yields a point of field elements; the loops
\* stay within the chunks of the bits; and a call that returned has read
\* every bit and returns a point and a scalar of the field.
C11_DivisionsDefined ==
  /\ pc = "div_by_zero" => (acc[1] = base[1] \/ C11_SecondDivision)
  /\ (pc = "bits" /\ i < ChunkLen(len, chunk)) =>
       \A bit \in {0, 1} :
         LET bs == FFromBool(bit)
         IN  (acc[1] # base[1] /\ NextDivisor(bs) # 0) =>
               (BitCall(bs).ok /\ BitCall(bs).out \in F \X F)
  /\ pc \in {"loop", "bits", "div_by_zero", "done"} =>
       (LenIsMultiple(len) /\ chunk <= NumChunks(len) /\ Len(bits) <= len)
  /\ pc = "bits" => (chunk < NumChunks(len) /\ i <= ChunkLen(len, chunk))
  /\ pc = "done" => (Len(bits) = len /\ acc \in F \X F /\ n_acc \in F)

\* A call on two chunks of bits none of whose ten steps divided by zero,
\* which returned a point other than the one it started from.
C11_Witness ==
  /\ pc = "done"
  /\ len = 2 * bits_per_chunk
  /\ Len(bits) = len
  /\ acc \in F \X F
  /\ acc # acc0

====
